---- MODULE Spec2Model ----
(***************************************************************************)
(* Onboarding state engine of activiza-api: the document validator, the    *)
(* client store adapter (ClientsService), the progressive save, the        *)
(* finalization (submit) and the progress resolver of OnboardingService.   *)
(*                                                                         *)
(* Every handler is cut at its awaits: a step is the code between two      *)
(* store / gateway calls together with the call that ends it.  The         *)
(* sequential specifications run a handler to completion in one action,    *)
(* the concurrent one interleaves the steps of two requests.               *)
(***************************************************************************)
EXTENDS Integers, Sequences, FiniteSets, TLC

VARIABLES db, procs, nops

vars == <<db, procs, nops>>

(***************************************************************************)
(* Bounds of the model.                                                    *)
(***************************************************************************)
\* number of handler calls started in one behaviour
MaxOps == 3

(***************************************************************************)
(* Strings the code inspects character by character (documents,           *)
(* passwords) are tuples of one-character strings; "" / <<>> is the        *)
(* absent (falsy) value of an optional string field.                       *)
(***************************************************************************)
Digits == {"0", "1", "2", "3", "4", "5", "6", "7", "8", "9"}
Lower == {"a", "b"}
Upper == {"A", "B", "G", "Z"}
Letters == Lower \cup Upper

DigitVal(c) ==
  CASE c = "0" -> 0 [] c = "1" -> 1 [] c = "2" -> 2 [] c = "3" -> 3
    [] c = "4" -> 4 [] c = "5" -> 5 [] c = "6" -> 6 [] c = "7" -> 7
    [] c = "8" -> 8 [] c = "9" -> 9 [] OTHER -> 0

\* String.prototype.toUpperCase / toLowerCase on the letters of the model
ToUpperChar(c) == CASE c = "a" -> "A" [] c = "b" -> "B" [] OTHER -> c
ToUpper(s) == [i \in 1..Len(s) |-> ToUpperChar(s[i])]

\* document.replace(/[^\dA-Za-z]/g, '')
normalizeDocument(document) ==
  SelectSeq(document, LAMBDA c : c \in Digits \cup Letters)

\* /^(\d)\1+$/ : one digit repeated, at least twice
AllSameDigit(s) ==
  /\ Len(s) >= 2
  /\ s[1] \in Digits
  /\ \A i \in 1..Len(s) : s[i] = s[1]

\* parseInt(cleaned.charAt(i)) is NaN on a letter, and NaN poisons the sum:
\* every comparison with the check digit is then false
AllDigits(s) == \A i \in 1..Len(s) : s[i] \in Digits

RECURSIVE WeightedSum(_, _, _)
\* sum of s[i] * w[i] for i in 1..n
WeightedSum(s, w, n) ==
  IF n = 0 THEN 0 ELSE DigitVal(s[n]) * w[n] + WeightedSum(s, w, n - 1)

CpfWeights1 == <<10, 9, 8, 7, 6, 5, 4, 3, 2>>
CpfWeights2 == <<11, 10, 9, 8, 7, 6, 5, 4, 3, 2>>

CpfDigit(sum) == LET d == 11 - (sum % 11) IN IF d >= 10 THEN 0 ELSE d

\* the check with the second check digit left unread
validateCPFFirstDigitOnly(cpf) ==
  LET cleaned == normalizeDocument(cpf) IN
  /\ Len(cleaned) = 11
  /\ ~AllSameDigit(cleaned)
  /\ AllDigits(SubSeq(cleaned, 1, 10))
  /\ cleaned[10] \in Digits
  /\ CpfDigit(WeightedSum(cleaned, CpfWeights1, 9)) = DigitVal(cleaned[10])

validateCPF(cpf) ==
  LET cleaned == normalizeDocument(cpf) IN
  /\ Len(cleaned) = 11
  /\ ~AllSameDigit(cleaned)
  /\ AllDigits(SubSeq(cleaned, 1, 10))
  /\ cleaned[10] \in Digits
  /\ CpfDigit(WeightedSum(cleaned, CpfWeights1, 9)) = DigitVal(cleaned[10])
  /\ cleaned[11] \in Digits
  /\ CpfDigit(WeightedSum(cleaned, CpfWeights2, 10)) = DigitVal(cleaned[11])

CnpjWeights1 == <<5, 4, 3, 2, 9, 8, 7, 6, 5, 4, 3, 2>>
CnpjWeights2 == <<6, 5, 4, 3, 2, 9, 8, 7, 6, 5, 4, 3, 2>>

CnpjDigit(sum) == LET d == sum % 11 IN IF d < 2 THEN 0 ELSE 11 - d

validateCNPJ(cnpj) ==
  LET cleaned == normalizeDocument(cnpj) IN
  /\ Len(cleaned) = 14
  /\ ~AllSameDigit(cleaned)
  /\ AllDigits(cleaned)
  /\ CnpjDigit(WeightedSum(cleaned, CnpjWeights1, 12)) = DigitVal(cleaned[13])
  /\ CnpjDigit(WeightedSum(cleaned, CnpjWeights2, 13)) = DigitVal(cleaned[14])

validateSSN(ssn) ==
  LET cleaned == normalizeDocument(ssn) IN
  /\ Len(cleaned) = 9
  /\ ~AllSameDigit(cleaned)
  /\ SubSeq(cleaned, 1, 3) # <<"0", "0", "0">>
  /\ SubSeq(cleaned, 4, 5) # <<"0", "0">>
  /\ SubSeq(cleaned, 6, 9) # <<"0", "0", "0", "0">>

validateEIN(ein) ==
  LET cleaned == normalizeDocument(ein) IN
  /\ Len(cleaned) = 9
  /\ ~AllSameDigit(cleaned)

InvalidNiPrefixes ==
  {<<"B", "G">>, <<"G", "B">>, <<"N", "K">>, <<"K", "N">>,
   <<"T", "N">>, <<"N", "T">>, <<"Z", "Z">>}

validateNINumber(ni) ==
  LET cleaned == ToUpper(normalizeDocument(ni)) IN
  /\ Len(cleaned) = 9
  /\ cleaned[1] \in Upper /\ cleaned[2] \in Upper
  /\ \A i \in 3..8 : cleaned[i] \in Digits
  /\ cleaned[9] \in Upper
  /\ SubSeq(cleaned, 1, 2) \notin InvalidNiPrefixes

validateCRN(crn) == Len(normalizeDocument(crn)) = 8

\* documentType.toLowerCase() / countryCode.toUpperCase() on the codes of the model
TypeLower(t) == t
CountryUpper(c) == IF c = "br" THEN "BR" ELSE c

validateDocument(document, documentType, countryCode) ==
  IF document = <<>> \/ documentType = "" \/ countryCode = "" THEN FALSE
  ELSE
    LET normalized == normalizeDocument(document)
        type == TypeLower(documentType)
        country == CountryUpper(countryCode)
    IN CASE country = "BR" ->
              IF type = "cpf" THEN validateCPF(normalized)
              ELSE IF type = "cnpj" THEN validateCNPJ(normalized)
              ELSE FALSE
         [] country = "US" ->
              IF type = "ssn" THEN validateSSN(normalized)
              ELSE IF type = "ein" THEN validateEIN(normalized)
              ELSE FALSE
         [] country = "UK" ->
              IF type = "ni" THEN validateNINumber(normalized)
              ELSE IF type = "crn" THEN validateCRN(normalized)
              ELSE FALSE
         [] OTHER -> Len(normalized) > 0

(***************************************************************************)
(* The store.  clients is keyed by email: clients_email_key makes the      *)
(* email of a row unique, so there is at most one row per email; a row's   *)
(* id is the rank of its email.  users (platform_users) and accounts are   *)
(* tables in creation order, a row's id is its index.                      *)
(***************************************************************************)
Emails == {"a@x.com", "b@x.com"}

ClientId(e) == IF e = "a@x.com" THEN 1 ELSE 2

QKeys == {"active_customers", "financial_operations", "working_capital",
          "business_duration", "business_type"}

NoMeta == [password |-> <<>>, phoneMeta |-> ""]

NoClient ==
  [exists |-> FALSE, email |-> "", name |-> "", document |-> <<>>,
   documentType |-> "", documentCountryCode |-> "", phone |-> "",
   meta |-> NoMeta, accountId |-> 0, address |-> ""]

NoAnswers == [k \in QKeys |-> <<>>]

EmptyDb ==
  [clients |-> [e \in Emails |-> NoClient],
   users |-> <<>>,
   accounts |-> <<>>,
   quals |-> [e \in Emails |-> NoAnswers],
   qowner |-> [e \in Emails |-> [k \in QKeys |-> 0]],
   ver |-> [e \in Emails |-> [emailVerified |-> FALSE, phoneVerified |-> FALSE]]]

\* the request body of save and of submit: a field left out is "" / <<>> / {} / FALSE
EmptyDto ==
  [email |-> "", name |-> "", document |-> <<>>, documentType |-> "",
   documentCountryCode |-> "", phone |-> "", code |-> "", emailCode |-> "",
   password |-> <<>>, activeCustomers |-> <<>>, financialOperations |-> <<>>,
   workingCapital |-> <<>>, businessDuration |-> <<>>, businessOptions |-> <<>>,
   address |-> "", termsAccepted |-> FALSE, privacyAccepted |-> FALSE,
   accountName |-> "", accountEmail |-> "", planId |-> 0]

\* a request: its handler, its body, the await it is at, the handler's locals
\* (client: the row the handler last read or got back from an update), the
\* verification sends it has asked the gateway for and, once it has ended,
\* its result
IdleProc ==
  [op |-> "idle", dto |-> EmptyDto, pc |-> "idle", client |-> NoClient,
   faultAt |-> "none", err |-> "", step |-> "", userId |-> 0, accountId |-> 0,
   phoneSends |-> 0, emailSends |-> 0]

Goto(d, l, pc) == [db |-> d, l |-> [l EXCEPT !.pc = pc]]

\* the handler throws: the request ends with the error kind
Throw(d, l, kind) ==
  [db |-> d, l |-> [l EXCEPT !.pc = "failed", !.err = kind, !.client = NoClient]]

\* an unclassified failure of the store or gateway call the request is at
Faulted(l) == l.faultAt = l.pc

(***************************************************************************)
(* ClientsService over the store                                           *)
(***************************************************************************)
\* prisma.client.findFirst({ where: { email, deletedAt: null } })
findByEmail(d, email) == d.clients[email]

\* prisma.client.findFirst({ where: { document, deletedAt: null } }) : the
\* emails of the rows holding exactly this document string, whatever the country
ClientsWithDocument(d, document) ==
  {e \in Emails : d.clients[e].exists /\ d.clients[e].document = document}

\* ClientsService.create / update: "Client with this document already exists"
\* when a row other than 'self' holds the document ('self' is "" on create)
DocumentTakenGlobally(d, document, self) ==
  \E e \in ClientsWithDocument(d, document) : e # self

\* prisma.platformUser.findUnique({ where: { email } })
PlatformUserExists(d, email) ==
  \E i \in 1..Len(d.users) : d.users[i].email = email

\* the unique index of platform_users.email that findUnique's where: { email } rests on
UserEmailIndexViolated(d, email) == PlatformUserExists(d, email)

\* unique_document_by_country: a partial unique index on
\* (document_country_code, document) where both are not null
DocumentIndexViolated(d, self, document, country) ==
  /\ document # <<>>
  /\ country # ""
  /\ \E e \in Emails \ {self} :
       /\ d.clients[e].exists
       /\ d.clients[e].document = document
       /\ d.clients[e].documentCountryCode = country

\* prisma.client.update({ where: { id }, data }) : the row after the write
SetClient(d, e, row) == [d EXCEPT !.clients[e] = row]

\* update with { name }
RowWithName(row, name) == [row EXCEPT !.name = name]

\* update with { document, documentType?, documentCountryCode? } : a key the
\* caller left out keeps the column
RowWithDocument(row, document, type, country) ==
  [row EXCEPT !.document = document,
              !.documentType = IF type # "" THEN type ELSE @,
              !.documentCountryCode = IF country # "" THEN country ELSE @]

\* update with { phone } : phoneString goes to the phone column, and metaData,
\* built from dto.meta (absent) plus phoneMeta, replaces the meta column
RowWithPhone(row, phone) ==
  [row EXCEPT !.phone = phone, !.meta = [password |-> <<>>, phoneMeta |-> phone]]

\* update with { meta } : the meta column becomes the object passed
RowWithMeta(row, meta) == [row EXCEPT !.meta = meta]

\* update with { accountId }
RowWithAccount(row, accountId) == [row EXCEPT !.accountId = accountId]

\* update with { address } : upsert of the address row
RowWithAddress(row, address) == [row EXCEPT !.address = address]

\* prisma.client.create : email, document, name, phone and meta.phoneMeta; the
\* type and the country of the document are not passed
CreatedRow(dto) ==
  [NoClient EXCEPT !.exists = TRUE, !.email = dto.email,
                   !.document = dto.document, !.name = dto.name,
                   !.phone = dto.phone,
                   !.meta = [password |-> <<>>, phoneMeta |-> dto.phone]]

(***************************************************************************)
(* Qualification recorder and verification gateway (their services are not *)
(* part of the sources: modelled from their interface)                     *)
(***************************************************************************)
\* the answers a request body carries, by question key
AnswersOf(dto) ==
  [k \in QKeys |->
     CASE k = "active_customers" -> dto.activeCustomers
       [] k = "financial_operations" -> dto.financialOperations
       [] k = "working_capital" -> dto.workingCapital
       [] k = "business_duration" -> dto.businessDuration
       [] OTHER -> dto.businessOptions]

HasAnswers(dto) == \E k \in QKeys : AnswersOf(dto)[k] # <<>>

\* saveAnswers: one answer per question key and subject, the last write wins
saveAnswers(d, e, dto) ==
  [d EXCEPT !.quals[e] =
     [k \in QKeys |-> IF AnswersOf(dto)[k] # <<>> THEN AnswersOf(dto)[k] ELSE @[k]]]

\* saveAnswers with an accountId: the answers passed are upserted as above and
\* carry the account; the answers of the other questions are not touched
saveAnswersLinked(d, e, dto, accountId) ==
  [saveAnswers(d, e, dto) EXCEPT !.qowner[e] =
     [k \in QKeys |-> IF AnswersOf(dto)[k] # <<>> THEN accountId ELSE @[k]]]

\* the gateway accepts the code "good" and rejects every other one
CodeAccepted(code) == code = "good"

verifyPhone(d, e) == [d EXCEPT !.ver[e].phoneVerified = TRUE]
verifyEmail(d, e) == [d EXCEPT !.ver[e].emailVerified = TRUE]
getVerificationStatus(d, e) == d.ver[e]

(***************************************************************************)
(* OnboardingService.saveOnboardingData                                    *)
(***************************************************************************)
\* the chain with the name tested ahead of the password and the answers
SaveStepNameFirst(dto, client) ==
  IF client.accountId # 0 THEN "completed"
  ELSE IF dto.address # "" THEN "address"
  ELSE IF dto.name # "" THEN "name"
  ELSE IF dto.businessOptions # <<>> THEN "business_options"
  ELSE IF dto.businessDuration # <<>> THEN "business_duration"
  ELSE IF dto.workingCapital # <<>> THEN "capital"
  ELSE IF dto.financialOperations # <<>> THEN "financial_operations"
  ELSE IF dto.activeCustomers # <<>> THEN "active_customers"
  ELSE IF dto.password # <<>> THEN "password"
  ELSE IF dto.emailCode # "" THEN "email_verification"
  ELSE IF dto.code # "" THEN "phone_verification"
  ELSE IF dto.phone # "" THEN "phone"
  ELSE IF dto.document # <<>> THEN "document"
  ELSE "email"

\* "Determine current step based on saved data": read from the request body,
\* and from the accountId of the row the handler holds
SaveStep(dto, client) ==
  IF client.accountId # 0 THEN "completed"
  ELSE IF dto.address # "" THEN "address"
  ELSE IF dto.businessOptions # <<>> THEN "business_options"
  ELSE IF dto.businessDuration # <<>> THEN "business_duration"
  ELSE IF dto.workingCapital # <<>> THEN "capital"
  ELSE IF dto.financialOperations # <<>> THEN "financial_operations"
  ELSE IF dto.activeCustomers # <<>> THEN "active_customers"
  ELSE IF dto.password # <<>> THEN "password"
  ELSE IF dto.emailCode # "" THEN "email_verification"
  ELSE IF dto.code # "" THEN "phone_verification"
  ELSE IF dto.phone # "" THEN "phone"
  ELSE IF dto.name # "" THEN "name"
  ELSE IF dto.document # <<>> THEN "document"
  ELSE "email"

\* the sections of the handler after the row is at hand, in source order; the
\* await a section starts with when its condition holds
SaveSectionPc(k, l) ==
  CASE k = 1 -> IF l.dto.name # "" /\ l.dto.name # l.client.name THEN "v_name" ELSE ""
    [] k = 2 -> IF l.dto.document # <<>> THEN "v_doc_read" ELSE ""
    [] k = 3 -> IF l.dto.phone # "" /\ l.dto.phone # l.client.phone
                THEN "v_phone_write" ELSE ""
    [] k = 4 -> IF l.dto.code # "" THEN "v_code" ELSE ""
    [] k = 5 -> IF l.dto.email # "" /\ l.dto.email = l.client.email
                THEN "v_status" ELSE ""
    [] k = 6 -> IF l.dto.emailCode # "" THEN "v_emailcode" ELSE ""
    [] k = 7 -> IF l.dto.password # <<>> THEN "v_password" ELSE ""
    [] k = 8 -> IF HasAnswers(l.dto) THEN "v_quals" ELSE ""
    [] k = 9 -> IF l.dto.address # "" THEN "v_address" ELSE ""
    [] OTHER -> "done"

RECURSIVE SaveFrom(_, _)
\* the next await of the handler from section k on, or "done"
SaveFrom(k, l) ==
  IF SaveSectionPc(k, l) # "" THEN SaveSectionPc(k, l) ELSE SaveFrom(k + 1, l)

\* run on from section k: to the next await, or to the return statement
SaveOn(d, l, k) ==
  LET pc == SaveFrom(k, l) IN
  IF pc = "done"
  THEN [db |-> d,
        l |-> [l EXCEPT !.pc = "done", !.step = SaveStep(l.dto, l.client),
                        !.accountId = l.client.accountId, !.client = NoClient]]
  ELSE Goto(d, l, pc)

\* one await of save and the code up to the next one
SaveStepAt(d, l) ==
  LET dto == l.dto
      e == dto.email
      row == d.clients[e]
      Got(newRow, k) == SaveOn(SetClient(d, e, newRow), [l EXCEPT !.client = newRow], k)
  IN
  IF Faulted(l) THEN Throw(d, l, "Error:Store")
  ELSE CASE l.pc = "v_find" ->
              IF findByEmail(d, e).exists
              THEN SaveOn(d, [l EXCEPT !.client = findByEmail(d, e)], 1)
              ELSE Goto(d, l, "c_email")
         \* ClientsService.create
         [] l.pc = "c_email" ->
              IF findByEmail(d, e).exists THEN Throw(d, l, "EmailAlreadyExists")
              ELSE Goto(d, l, "c_user")
         [] l.pc = "c_user" ->
              IF PlatformUserExists(d, e) THEN Throw(d, l, "EmailAlreadyExists")
              ELSE IF dto.document # <<>> THEN Goto(d, l, "c_doc")
              ELSE Goto(d, l, "c_write")
         [] l.pc = "c_doc" ->
              IF DocumentTakenGlobally(d, dto.document, "")
              THEN Throw(d, l, "Error:DocumentExists")
              ELSE Goto(d, l, "c_write")
         [] l.pc = "c_write" ->
              IF row.exists THEN Throw(d, l, "Error:Store")
              ELSE Got(CreatedRow(dto), 1)
         \* Step 2: name
         [] l.pc = "v_name" -> Got(RowWithName(row, dto.name), 2)
         \* document: ClientsService.update reads, then writes
         [] l.pc = "v_doc_read" ->
              IF DocumentTakenGlobally(d, dto.document, e)
              THEN Throw(d, l, "Error:DocumentExists")
              ELSE Goto(d, l, "v_doc_write")
         [] l.pc = "v_doc_write" ->
              LET newRow == RowWithDocument(row, dto.document, dto.documentType,
                                            dto.documentCountryCode) IN
              IF DocumentIndexViolated(d, e, newRow.document, newRow.documentCountryCode)
              THEN Throw(d, l, "Error:Store")
              ELSE Got(newRow, 3)
         \* Step 3: phone, then the verification send
         [] l.pc = "v_phone_write" ->
              Goto(SetClient(d, e, RowWithPhone(row, dto.phone)),
                   [l EXCEPT !.client = RowWithPhone(row, dto.phone)], "v_phone_send")
         [] l.pc = "v_phone_send" ->
              SaveOn(d, [l EXCEPT !.phoneSends = @ + 1], 4)
         \* Step 4-5: phone code
         [] l.pc = "v_code" ->
              IF CodeAccepted(dto.code) THEN SaveOn(verifyPhone(d, e), l, 5)
              ELSE Throw(d, l, "Error:VerificationFailed")
         \* Step 6: email verification send while unverified
         [] l.pc = "v_status" ->
              IF ~getVerificationStatus(d, e).emailVerified
              THEN Goto(d, l, "v_email_send")
              ELSE SaveOn(d, l, 6)
         [] l.pc = "v_email_send" ->
              SaveOn(d, [l EXCEPT !.emailSends = @ + 1], 6)
         \* Step 7-8: email code
         [] l.pc = "v_emailcode" ->
              IF CodeAccepted(dto.emailCode) THEN SaveOn(verifyEmail(d, e), l, 7)
              ELSE Throw(d, l, "Error:VerificationFailed")
         \* Step 9: password into the meta of the row the handler holds
         [] l.pc = "v_password" ->
              LET meta == [l.client.meta EXCEPT !.password = dto.password] IN
              SaveOn(SetClient(d, e, RowWithMeta(row, meta)),
                     [l EXCEPT !.client.meta = meta], 8)
         \* Step 10-14: qualification answers
         [] l.pc = "v_quals" -> SaveOn(saveAnswers(d, e, dto), l, 9)
         \* Step 15-17: address
         [] l.pc = "v_address" -> Got(RowWithAddress(row, dto.address), 10)

(***************************************************************************)
(* OnboardingService.submitOnboarding                                      *)
(***************************************************************************)
PasswordSymbols == {"@", "$", "!", "%", "*", "?", "&"}

\* [A-Za-z\d@$!%*?&]
PasswordClass == Letters \cup Digits \cup PasswordSymbols

\* /^(?=.*[a-z])(?=.*[A-Z])(?=.*\d)(?=.*[@$!%*?&])[A-Za-z\d@$!%*?&]/.test(password)
PasswordRegexTest(password) ==
  /\ \E i \in 1..Len(password) : password[i] \in Lower
  /\ \E i \in 1..Len(password) : password[i] \in Upper
  /\ \E i \in 1..Len(password) : password[i] \in Digits
  /\ \E i \in 1..Len(password) : password[i] \in PasswordSymbols
  /\ Len(password) >= 1
  /\ password[1] \in PasswordClass

\* "Validate required fields"
MissingFields(dto) ==
  {f \in {"email", "password", "name", "businessOptions"} :
     \/ f = "email" /\ dto.email = ""
     \/ f = "password" /\ dto.password = <<>>
     \/ f = "name" /\ dto.name = ""
     \/ f = "businessOptions" /\ dto.businessOptions = <<>>}

\* dto.phone?.formattedPhoneNumber || dto.phone?.phoneNumber || client.phone
SubmitPhone(dto, client) == IF dto.phone # "" THEN dto.phone ELSE client.phone

\* dto.document ? normalizeDocument(dto.document) : null
SubmitDocument(dto, client) ==
  IF dto.document # <<>> THEN normalizeDocument(dto.document) ELSE <<>>

\* platformUserData
NewUser(dto, client) ==
  [email |-> dto.email, name |-> dto.name, phone |-> SubmitPhone(dto, client),
   document |-> SubmitDocument(dto, client)]

\* accountsService.create({ name, email, phone, document, ownerId, planId })
NewAccount(dto, client, ownerId) ==
  [name |-> IF dto.accountName # "" THEN dto.accountName ELSE dto.name,
   email |-> IF dto.accountEmail # "" THEN dto.accountEmail ELSE dto.email,
   phone |-> SubmitPhone(dto, client),
   document |-> SubmitDocument(dto, client),
   ownerId |-> ownerId,
   planId |-> dto.planId]

\* prisma.client.findFirst({ where: { document: normalizedDocument,
\*   documentCountryCode, deletedAt: null, NOT: { id: client.id } } })
DocumentTakenInCountry(d, self, document, country) ==
  \E e \in Emails \ {self} :
    /\ d.clients[e].exists
    /\ d.clients[e].document = document
    /\ d.clients[e].documentCountryCode = country

\* the gate with the phone channel left out: only the email flag is read
VerificationErrorNoPhone(verificationStatus) ==
  IF ~verificationStatus.emailVerified THEN "EmailNotVerified" ELSE ""

\* "Verify email and phone are verified": the error thrown, "" when both are
VerificationError(verificationStatus) ==
  IF ~verificationStatus.emailVerified THEN "EmailNotVerified"
  ELSE IF ~verificationStatus.phoneVerified THEN "PhoneNotVerified"
  ELSE ""

\* the await that follows the link of the client to the account
SubmitAfterLink(l) == IF l.dto.address # "" THEN "s_address" ELSE "s_quals"

\* the await that follows the address
SubmitAfterAddress(d, l) ==
  IF HasAnswers(l.dto) THEN Goto(d, l, "s_quals")
  ELSE [db |-> d, l |-> [l EXCEPT !.pc = "done", !.client = NoClient]]

\* one await of submit and the code up to the next one
SubmitStepAt(d, l) ==
  LET dto == l.dto
      e == dto.email
      row == d.clients[e]
      normalizedDocument == normalizeDocument(dto.document)
  IN
  IF l.pc # "s_find" /\ Faulted(l) THEN Throw(d, l, "Error:Store") ELSE
  CASE l.pc = "s_find" ->
         IF MissingFields(dto) # {} THEN Throw(d, l, "MissingRequiredFields")
         ELSE IF ~PasswordRegexTest(dto.password) THEN Throw(d, l, "WeakPassword")
         ELSE IF Faulted(l) THEN Throw(d, l, "Error:Store")
         ELSE IF ~findByEmail(d, e).exists THEN Throw(d, l, "Error:ClientNotFound")
         ELSE Goto(d, [l EXCEPT !.client = findByEmail(d, e)], "s_status")
    [] l.pc = "s_status" ->
         IF VerificationError(getVerificationStatus(d, e)) # ""
         THEN Throw(d, l, VerificationError(getVerificationStatus(d, e)))
         ELSE IF dto.document = <<>> THEN Goto(d, l, "s_user_find")
         ELSE IF dto.documentType = "" \/ dto.documentCountryCode = ""
         THEN Throw(d, l, "InvalidDocument")
         ELSE IF ~validateDocument(dto.document, dto.documentType,
                                   dto.documentCountryCode)
         THEN Throw(d, l, "InvalidDocument")
         ELSE Goto(d, l, "s_doc_find")
    [] l.pc = "s_doc_find" ->
         IF DocumentTakenInCountry(d, e, normalizedDocument, dto.documentCountryCode)
         THEN Throw(d, l, "DocumentAlreadyExists")
         ELSE Goto(d, l, "s_doc_read")
    \* clientsService.update reads, then writes
    [] l.pc = "s_doc_read" ->
         IF DocumentTakenGlobally(d, normalizedDocument, e)
         THEN Throw(d, l, "Error:DocumentExists")
         ELSE Goto(d, l, "s_doc_write")
    [] l.pc = "s_doc_write" ->
         IF DocumentIndexViolated(d, e, normalizedDocument, dto.documentCountryCode)
         THEN Throw(d, l, "Error:Store")
         ELSE Goto(SetClient(d, e, RowWithDocument(row, normalizedDocument,
                                     dto.documentType, dto.documentCountryCode)),
                   l, "s_user_find")
    [] l.pc = "s_user_find" ->
         IF PlatformUserExists(d, e) THEN Throw(d, l, "EmailAlreadyExists")
         ELSE Goto(d, l, "s_user_create")
    [] l.pc = "s_user_create" ->
         IF UserEmailIndexViolated(d, e) THEN Throw(d, l, "Error:Store")
         ELSE Goto([d EXCEPT !.users = Append(@, NewUser(dto, l.client))],
                   [l EXCEPT !.userId = Len(d.users) + 1], "s_account_create")
    [] l.pc = "s_account_create" ->
         Goto([d EXCEPT !.accounts = Append(@, NewAccount(dto, l.client, l.userId))],
              [l EXCEPT !.accountId = Len(d.accounts) + 1], "s_link")
    [] l.pc = "s_link" ->
         Goto(SetClient(d, e, RowWithAccount(row, l.accountId)), l, SubmitAfterLink(l))
    [] l.pc = "s_address" ->
         SubmitAfterAddress(SetClient(d, e, RowWithAddress(row, dto.address)), l)
    [] l.pc = "s_quals" ->
         [db |-> saveAnswersLinked(d, e, dto, l.accountId),
          l |-> [l EXCEPT !.pc = "done", !.client = NoClient]]

(***************************************************************************)
(* OnboardingService.getOnboardingProgress                                 *)
(***************************************************************************)
\* a stored answer read as a condition: 0 is falsy, an absent answer is undefined
Truthy(answer) == answer # <<>> /\ answer # <<0>>

\* the step of the progress snapshot for an email-shaped identifier
ResolveStep(d, email) ==
  LET client == findByEmail(d, email)
      verificationStatus == getVerificationStatus(d, email)
      qualificationsMap == d.quals[email]
  IN
  IF ~client.exists THEN "email"
  ELSE IF client.accountId # 0 THEN "completed"
  ELSE IF client.address # "" THEN "address"
  ELSE IF Truthy(qualificationsMap["business_type"]) THEN "business_options"
  ELSE IF Truthy(qualificationsMap["business_duration"]) THEN "business_duration"
  ELSE IF Truthy(qualificationsMap["working_capital"]) THEN "capital"
  ELSE IF Truthy(qualificationsMap["financial_operations"]) THEN "financial_operations"
  ELSE IF Truthy(qualificationsMap["active_customers"]) THEN "active_customers"
  ELSE IF verificationStatus.emailVerified THEN "email_verification"
  ELSE IF client.email # "" THEN "email"
  ELSE IF verificationStatus.phoneVerified THEN "phone_verification"
  ELSE IF client.phone # "" THEN "phone"
  ELSE IF client.name # "" THEN "name"
  ELSE "document"

(***************************************************************************)
(* Requests                                                                *)
(***************************************************************************)
Procs == {1, 2}

Ended(l) == l.pc \in {"idle", "done", "failed"}

FirstPc(op) == IF op = "save" THEN "v_find" ELSE "s_find"

NewProc(op, dto, fault) ==
  [IdleProc EXCEPT !.op = op, !.dto = dto, !.pc = FirstPc(op), !.faultAt = fault]

\* one await of the request's handler
HandlerStep(d, l) == IF l.op = "save" THEN SaveStepAt(d, l) ELSE SubmitStepAt(d, l)

RECURSIVE Run(_, _)
\* the handler driven to its end with no other request in between
Run(d, l) ==
  IF Ended(l) THEN [db |-> d, l |-> l]
  ELSE LET r == HandlerStep(d, l) IN Run(r.db, r.l)

\* a request served alone, from its first await to its result
Serve(l) ==
  LET r == Run(db, l) IN
    /\ db' = r.db
    /\ procs' = [procs EXCEPT ![1] = r.l]

\* no request is in flight and the behaviour may start one more
MayCall == nops < MaxOps /\ \A p \in Procs : Ended(procs[p])

\* the slot is free and the behaviour may start one more request
MayStart(p) == nops < MaxOps /\ Ended(procs[p])

\* a request arrives
Begin(p, l) ==
  /\ procs' = [procs EXCEPT ![p] = l]
  /\ nops' = nops + 1
  /\ UNCHANGED db

\* a request in flight runs to its next await
Step(p) ==
  /\ ~Ended(procs[p])
  /\ LET r == HandlerStep(db, procs[p]) IN
       /\ db' = r.db
       /\ procs' = [procs EXCEPT ![p] = r.l]
  /\ UNCHANGED nops

Init ==
  /\ db = EmptyDb
  /\ procs = [p \in Procs |-> IdleProc]
  /\ nops = 0

(***************************************************************************)
(* Request bodies                                                          *)
(***************************************************************************)
PwStrong == <<"A", "a", "1", "!", "a", "a", "a", "a">>
\* passes the regex of the handler with fewer than 8 characters
PwShort == <<"A", "a", "1", "!">>
PwNoSymbol == <<"A", "a", "1", "a", "a", "a", "a", "a">>

\* 529.982.247-25, a CPF whose check digits are right, with and without punctuation
CpfValid == <<"5", "2", "9", "9", "8", "2", "2", "4", "7", "2", "5">>
CpfFormatted ==
  <<"5", "2", "9", ".", "9", "8", "2", ".", "2", "4", "7", "-", "2", "5">>
CpfBadCheck == <<"5", "2", "9", "9", "8", "2", "2", "4", "7", "2", "6">>
DocShort == <<"1", "2", "3">>

\* { email } alone
JustEmail(e) == [EmptyDto EXCEPT !.email = e]

WithDocument(dto, document, type, country) ==
  [dto EXCEPT !.document = document, !.documentType = type,
              !.documentCountryCode = country]

\* a save whose codes the gateway accepts: both channels verified afterwards
VerifyingSave(e) ==
  [EmptyDto EXCEPT !.email = e, !.name = "Ann", !.phone = "+5511",
                   !.code = "good", !.emailCode = "good"]

\* a submission that passes the required-field and the password checks
FullSubmit(e) ==
  [EmptyDto EXCEPT !.email = e, !.password = PwStrong, !.name = "Ann",
                   !.businessOptions = <<"lendMoney">>,
                   !.termsAccepted = TRUE, !.privacyAccepted = TRUE]

(***************************************************************************)
(* Spec: save and submit requests served one after the other               *)
(***************************************************************************)
SaveDtos ==
  UNION {{ JustEmail(e),
           VerifyingSave(e),
           [JustEmail(e) EXCEPT !.emailCode = "good"],
           [JustEmail(e) EXCEPT !.phone = "+5511", !.code = "good"],
           WithDocument(JustEmail(e), CpfValid, "cpf", "BR") } : e \in Emails}

SubmitDtos ==
  UNION {{ FullSubmit(e),
           WithDocument(FullSubmit(e), CpfValid, "cpf", "BR"),
           WithDocument(FullSubmit(e), CpfBadCheck, "cpf", "BR"),
           WithDocument(FullSubmit(e), CpfValid, "", ""),
           WithDocument(FullSubmit(e), CpfValid, "other", "PT"),
           [FullSubmit(e) EXCEPT !.password = PwNoSymbol],
           [FullSubmit(e) EXCEPT !.password = PwShort],
           [FullSubmit(e) EXCEPT !.name = ""],
           [FullSubmit(e) EXCEPT !.name = "", !.password = PwNoSymbol],
           [FullSubmit(e) EXCEPT !.termsAccepted = FALSE, !.password = PwNoSymbol]
         } : e \in Emails}

\* the store calls of submit at which an unclassified failure is injected
SubmitFaults == {"none", "s_account_create", "s_link"}

Save(dto) ==
  /\ MayCall
  /\ Serve(NewProc("save", dto, "none"))
  /\ nops' = nops + 1

Submit(dto, fault) ==
  /\ MayCall
  /\ Serve(NewProc("submit", dto, fault))
  /\ nops' = nops + 1

Next ==
  \/ \E dto \in SaveDtos : Save(dto)
  \/ \E dto \in SubmitDtos, fault \in SubmitFaults : Submit(dto, fault)

Spec == Init /\ [][Next]_vars

(***************************************************************************)
(* The preconditions of submit as the specification lists them             *)
(***************************************************************************)
\* check 1: email, password, name, a business option, terms and privacy accepted
RequiredMissing(dto) ==
  \/ dto.email = "" \/ dto.password = <<>> \/ dto.name = ""
  \/ dto.businessOptions = <<>>
  \/ ~dto.termsAccepted \/ ~dto.privacyAccepted

\* check 2: at least 8 characters, a lowercase and an uppercase letter, a digit
\* and a symbol of the punctuation set
PasswordIsStrong(password) ==
  /\ Len(password) >= 8
  /\ \E i \in 1..Len(password) : password[i] \in Lower
  /\ \E i \in 1..Len(password) : password[i] \in Upper
  /\ \E i \in 1..Len(password) : password[i] \in Digits
  /\ \E i \in 1..Len(password) : password[i] \in PasswordSymbols

\* check 5: another identity holds the same country and the same normalized document
DocumentCollides(d, dto) ==
  \E e \in Emails \ {dto.email} :
    /\ d.clients[e].exists
    /\ d.clients[e].document # <<>>
    /\ d.clients[e].documentCountryCode = dto.documentCountryCode
    /\ normalizeDocument(d.clients[e].document) = normalizeDocument(dto.document)

\* the error of the earliest violated check in the order 1..6, "" when none is
FirstViolated(d, dto) ==
  IF RequiredMissing(dto) THEN "MissingRequiredFields"
  ELSE IF ~PasswordIsStrong(dto.password) THEN "WeakPassword"
  ELSE IF ~d.clients[dto.email].exists THEN "Error:ClientNotFound"
  ELSE IF ~d.ver[dto.email].emailVerified THEN "EmailNotVerified"
  ELSE IF ~d.ver[dto.email].phoneVerified THEN "PhoneNotVerified"
  ELSE IF dto.document # <<>> /\ (dto.documentType = "" \/ dto.documentCountryCode = "")
  THEN "InvalidDocument"
  ELSE IF dto.document # <<>>
          /\ ~validateDocument(dto.document, dto.documentType, dto.documentCountryCode)
  THEN "InvalidDocument"
  ELSE IF dto.document # <<>> /\ DocumentCollides(d, dto) THEN "DocumentAlreadyExists"
  ELSE IF PlatformUserExists(d, dto.email) THEN "EmailAlreadyExists"
  ELSE ""

\* this step serves a submit request from its first await to its result
SubmitServed == nops' = nops + 1 /\ procs'[1].op = "submit"

(***************************************************************************)
(* C2: a submit that violates one or several of the six checks reports the *)
(* error of the earliest violated check in the order required fields,      *)
(* password strength, identity exists, email verified, phone verified,     *)
(* document, credential email.                                             *)
(***************************************************************************)
C2_FirstFailureWins ==
  [][(SubmitServed /\ procs'[1].faultAt = "none"
        /\ FirstViolated(db, procs'[1].dto) # "")
     => procs'[1].err = FirstViolated(db, procs'[1].dto)]_vars

(***************************************************************************)
(* C3: a submit that ends in an error leaves the store as it found it: no  *)
(* credential and no account of the call remain, the identities and the    *)
(* qualification answers are as before the call.                           *)
(***************************************************************************)
C3_SubmitAtomic ==
  [][(SubmitServed /\ procs'[1].pc = "failed")
     => /\ db'.users = db.users
        /\ db'.accounts = db.accounts
        /\ db'.clients = db.clients
        /\ db'.quals = db.quals]_vars

(***************************************************************************)
(* C4: verification gates finalization.  A submit that passes the          *)
(* required-field and password checks of the handler for an existing       *)
(* identity ends with EmailNotVerified when the email channel is           *)
(* unverified, with PhoneNotVerified when the email is verified and the    *)
(* phone is not, and with neither when both are; and every credential and  *)
(* every account in the store belongs to an identity whose two channels    *)
(* are verified.                                                           *)
(***************************************************************************)
ReachesGate(d, dto) ==
  /\ MissingFields(dto) = {}
  /\ PasswordRegexTest(dto.password)
  /\ d.clients[dto.email].exists

BothVerified(d, e) == d.ver[e].emailVerified /\ d.ver[e].phoneVerified

C4_GateStep ==
  (SubmitServed /\ ReachesGate(db, procs'[1].dto))
  => LET e == procs'[1].dto.email IN
     /\ ~db.ver[e].emailVerified => procs'[1].err = "EmailNotVerified"
     /\ (db.ver[e].emailVerified /\ ~db.ver[e].phoneVerified)
          => procs'[1].err = "PhoneNotVerified"
     /\ BothVerified(db, e)
          => procs'[1].err \notin {"EmailNotVerified", "PhoneNotVerified"}

C4_CredentialsVerified ==
  /\ \A i \in 1..Len(db.users) : BothVerified(db, db.users[i].email)
  /\ \A i \in 1..Len(db.accounts) :
       /\ db.accounts[i].ownerId \in 1..Len(db.users)
       /\ BothVerified(db, db.users[db.accounts[i].ownerId].email)

C4_VerificationGates == [][C4_GateStep]_vars /\ []C4_CredentialsVerified

\* the end-to-end scenario: two saves have left an identity with a document
\* and no verified channel, and the submit that followed ended with
\* EmailNotVerified
C4_Witness ==
  \E e \in Emails :
    /\ nops = 3
    /\ procs[1].op = "submit" /\ procs[1].dto.email = e
    /\ procs[1].err = "EmailNotVerified"
    /\ db.clients[e].document = CpfValid
    /\ db.clients[e].name = ""
    /\ ~db.ver[e].emailVerified
    /\ db.users = <<>>

(***************************************************************************)
(* SpecConc: requests in flight together, interleaved at their awaits      *)
(***************************************************************************)
ConcSaveDtos == {VerifyingSave(e) : e \in Emails}

ConcSubmitDtos ==
  UNION {{ FullSubmit(e),
           [WithDocument(FullSubmit(e), CpfValid, "cpf", "BR")
              EXCEPT !.address = "Rua 1"] } : e \in Emails}

ConcSubmitFaults == {"none", "s_address"}

StartSave(p, dto) ==
  /\ MayStart(p)
  /\ Begin(p, NewProc("save", dto, "none"))

StartSubmit(p, dto, fault) ==
  /\ MayStart(p)
  /\ Begin(p, NewProc("submit", dto, fault))

NextConc ==
  \/ \E p \in Procs, dto \in ConcSaveDtos : StartSave(p, dto)
  \/ \E p \in Procs, dto \in ConcSubmitDtos, fault \in ConcSubmitFaults :
       StartSubmit(p, dto, fault)
  \/ \E p \in Procs : Step(p)

SpecConc == Init /\ [][NextConc]_vars

\* the credentials of an email, and the accounts those credentials own
UsersOf(d, e) == {i \in 1..Len(d.users) : d.users[i].email = e}

AccountsOf(d, e) == {i \in 1..Len(d.accounts) : d.accounts[i].ownerId \in UsersOf(d, e)}

\* the errors of the checks that precede the credential-email check
EarlierCheckErrors ==
  {"MissingRequiredFields", "WeakPassword", "Error:ClientNotFound",
   "EmailNotVerified", "PhoneNotVerified", "InvalidDocument",
   "DocumentAlreadyExists"}

(***************************************************************************)
(* C1: at most one successful finalize per email.  No email has two        *)
(* credentials or two accounts, and when a submit for an email has         *)
(* succeeded, every other submit for that email that passed the earlier    *)
(* checks and met no injected failure has ended with EmailAlreadyExists.   *)
(***************************************************************************)
C1_OneFinalizePerEmail ==
  /\ \A e \in Emails :
       Cardinality(UsersOf(db, e)) <= 1 /\ Cardinality(AccountsOf(db, e)) <= 1
  /\ \A p, q \in Procs :
       (/\ p # q
        /\ procs[p].op = "submit" /\ procs[q].op = "submit"
        /\ procs[p].dto.email = procs[q].dto.email
        /\ procs[p].pc = "done"
        /\ procs[q].pc \in {"done", "failed"}
        /\ procs[q].faultAt = "none"
        /\ procs[q].err \notin EarlierCheckErrors)
       => procs[q].err = "EmailAlreadyExists"

(***************************************************************************)
(* C5: linkedAccountId is set exactly once.  An identity's accountId is    *)
(* absent or the account owned by the one credential of its email; once    *)
(* set it never changes; it is set only by the link step of a submit for   *)
(* that email, to the account that submit created; and no identity is      *)
(* linked to the account of a submit that ended in an error.               *)
(***************************************************************************)
C5_Linked ==
  \A e \in Emails :
    db.clients[e].accountId # 0
    => /\ Cardinality(UsersOf(db, e)) = 1
       /\ AccountsOf(db, e) = {db.clients[e].accountId}

C5_LinkStep ==
  \A e \in Emails :
    /\ db.clients[e].accountId # 0
         => db'.clients[e].accountId = db.clients[e].accountId
    /\ (db.clients[e].accountId = 0 /\ db'.clients[e].accountId # 0)
         => \E p \in Procs :
              /\ procs[p].op = "submit" /\ procs[p].pc = "s_link"
              /\ procs[p].dto.email = e
              /\ db'.clients[e].accountId = procs[p].accountId

C5_LinkedBySuccess ==
  \A p \in Procs :
    (procs[p].op = "submit" /\ procs[p].pc = "failed" /\ procs[p].accountId # 0)
    => db.clients[procs[p].dto.email].accountId # procs[p].accountId

C5_LinkedOnce ==
  [](C5_Linked /\ C5_LinkedBySuccess) /\ [][C5_LinkStep]_vars

(***************************************************************************)
(* SpecDoc: saves and submits that carry documents, served one by one      *)
(***************************************************************************)
DocSaveDtos ==
  UNION {{ VerifyingSave(e),
           WithDocument(JustEmail(e), CpfFormatted, "cpf", "BR"),
           WithDocument(JustEmail(e), CpfValid, "cpf", "BR"),
           WithDocument(JustEmail(e), CpfBadCheck, "cpf", "BR"),
           WithDocument(JustEmail(e), DocShort, "cpf", "BR") } : e \in Emails}

DocSubmitDtos ==
  UNION {{ WithDocument(FullSubmit(e), CpfValid, "cpf", "BR"),
           WithDocument(FullSubmit(e), CpfFormatted, "cpf", "BR") } : e \in Emails}

SaveDoc(dto) ==
  /\ MayCall
  /\ Serve(NewProc("save", dto, "none"))
  /\ nops' = nops + 1

SubmitDoc(dto) ==
  /\ MayCall
  /\ Serve(NewProc("submit", dto, "none"))
  /\ nops' = nops + 1

NextDoc ==
  \/ \E dto \in DocSaveDtos : SaveDoc(dto)
  \/ \E dto \in DocSubmitDtos : SubmitDoc(dto)

SpecDoc == Init /\ [][NextDoc]_vars

\* this step serves a save request from its first await to its result
SaveServed == nops' = nops + 1 /\ procs'[1].op = "save"

\* the errors a save or a submit ends with when the store refuses its document
DocumentRefusals == {"Error:DocumentExists", "Error:Store"}

(***************************************************************************)
(* C6: the save path never rejects a submission because of its document:   *)
(* a save that carries a document, whatever the string and whoever holds   *)
(* it already, is not refused for it, and when it succeeds the identity    *)
(* holds the document as submitted.                                        *)
(***************************************************************************)
C6_SaveAcceptsAnyDocument ==
  [][(SaveServed /\ procs'[1].dto.document # <<>>)
     => /\ procs'[1].err \notin DocumentRefusals
        /\ procs'[1].pc = "done"
             => db'.clients[procs'[1].dto.email].document = procs'[1].dto.document]_vars

(***************************************************************************)
(* SpecCountry: one document string under two country codes                *)
(***************************************************************************)
CountrySaveDtos ==
  UNION {{ VerifyingSave(e),
           WithDocument(JustEmail(e), CpfValid, "cpf", "BR"),
           WithDocument(JustEmail(e), DocShort, "other", "AR"),
           WithDocument(JustEmail(e), CpfValid, "other", "PT") } : e \in Emails}

CountrySubmitDtos ==
  UNION {{ WithDocument(FullSubmit(e), CpfValid, "cpf", "BR"),
           WithDocument(FullSubmit(e), CpfValid, "other", "PT") } : e \in Emails}

SaveCountry(dto) ==
  /\ MayCall
  /\ Serve(NewProc("save", dto, "none"))
  /\ nops' = nops + 1

SubmitCountry(dto) ==
  /\ MayCall
  /\ Serve(NewProc("submit", dto, "none"))
  /\ nops' = nops + 1

NextCountry ==
  \/ \E dto \in CountrySaveDtos : SaveCountry(dto)
  \/ \E dto \in CountrySubmitDtos : SubmitCountry(dto)

SpecCountry == Init /\ [][NextCountry]_vars

\* identities other than the caller's that hold the document string
OtherHolders(d, dto) ==
  {e \in Emails \ {dto.email} :
     d.clients[e].exists /\ d.clients[e].document = dto.document}

\* two finalized identities hold the same country and the same normalized document
FinalizedDuplicate(d) ==
  \E e1, e2 \in Emails :
    /\ e1 # e2
    /\ d.clients[e1].accountId # 0 /\ d.clients[e2].accountId # 0
    /\ d.clients[e1].document # <<>>
    /\ d.clients[e1].documentCountryCode # ""
    /\ d.clients[e1].documentCountryCode = d.clients[e2].documentCountryCode
    /\ normalizeDocument(d.clients[e1].document)
         = normalizeDocument(d.clients[e2].document)

(***************************************************************************)
(* C7: document uniqueness at finalize.  A submit whose earliest violated  *)
(* check is the collision of its (countryCode, normalized document) with   *)
(* another identity ends with DocumentAlreadyExists; a submit with a       *)
(* document that violates no check stores the normalized document on the   *)
(* identity; and no two finalized identities hold the same pair.           *)
(***************************************************************************)
C7_Step ==
  (SubmitServed /\ procs'[1].dto.document # <<>>)
  => LET dto == procs'[1].dto IN
     /\ FirstViolated(db, dto) = "DocumentAlreadyExists"
          => procs'[1].err = "DocumentAlreadyExists"
     /\ FirstViolated(db, dto) = ""
          => /\ procs'[1].pc = "done"
             /\ db'.clients[dto.email].document = normalizeDocument(dto.document)

C7_DocumentUniqueAtFinalize == [][C7_Step]_vars /\ [](~FinalizedDuplicate(db))

(***************************************************************************)
(* C8: no cross-country collision.  A save or a submit whose document is   *)
(* held by other identities only under other country codes, and that       *)
(* violates no check of its own, is accepted: it ends without error and    *)
(* both records hold the string.                                           *)
(***************************************************************************)
HeldOnlyElsewhere(d, dto) ==
  /\ dto.document # <<>> /\ dto.documentType # "" /\ dto.documentCountryCode # ""
  /\ validateDocument(dto.document, dto.documentType, dto.documentCountryCode)
  /\ OtherHolders(d, dto) # {}
  /\ \A e \in OtherHolders(d, dto) :
       /\ d.clients[e].documentCountryCode # ""
       /\ d.clients[e].documentCountryCode # dto.documentCountryCode

C8_Step ==
  /\ (SaveServed /\ HeldOnlyElsewhere(db, procs'[1].dto))
       => procs'[1].pc = "done"
  /\ (SubmitServed /\ HeldOnlyElsewhere(db, procs'[1].dto)
        /\ FirstViolated(db, procs'[1].dto) = "")
       => procs'[1].pc = "done"

C8_NoCrossCountryCollision == [][C8_Step]_vars


(***************************************************************************)
(* SpecStep: saves that fill an identity field by field, resolve requests  *)
(* and submits, served one after the other                                 *)
(***************************************************************************)
StepSaveDtos ==
  UNION {{ JustEmail(e),
           [JustEmail(e) EXCEPT !.name = "Ann"],
           [JustEmail(e) EXCEPT !.phone = "+5511"],
           [JustEmail(e) EXCEPT !.password = PwStrong],
           [JustEmail(e) EXCEPT !.activeCustomers = <<0>>],
           [JustEmail(e) EXCEPT !.activeCustomers = <<5>>],
           [JustEmail(e) EXCEPT !.address = "Main St 1"],
           WithDocument(JustEmail(e), CpfValid, "cpf", "BR"),
           VerifyingSave(e) } : e \in Emails}

StepSubmitDtos == {FullSubmit(e) : e \in Emails}

SaveField(dto) ==
  /\ MayCall
  /\ Serve(NewProc("save", dto, "none"))
  /\ nops' = nops + 1

SubmitFilled(dto) ==
  /\ MayCall
  /\ Serve(NewProc("submit", dto, "none"))
  /\ nops' = nops + 1

\* getOnboardingProgress for an email-shaped identifier: reads, writes nothing
Resolve(e) ==
  /\ MayCall
  /\ procs' = [procs EXCEPT ![1] =
       [IdleProc EXCEPT !.op = "resolve", !.dto = JustEmail(e), !.pc = "done",
                        !.step = ResolveStep(db, e),
                        !.accountId = findByEmail(db, e).accountId]]
  /\ nops' = nops + 1
  /\ UNCHANGED db

NextStep ==
  \/ \E dto \in StepSaveDtos : SaveField(dto)
  \/ \E dto \in StepSubmitDtos : SubmitFilled(dto)
  \/ \E e \in Emails : Resolve(e)

SpecStep == Init /\ [][NextStep]_vars

\* the priority list of step inference read over the stored identity: its
\* row, its recorded answers and its verification flags
PriorityStep(d, e) ==
  LET client == d.clients[e]
      answers == d.quals[e]
  IN
  IF client.accountId # 0 THEN "completed"
  ELSE IF client.address # "" THEN "address"
  ELSE IF answers["business_type"] # <<>> THEN "business_options"
  ELSE IF answers["business_duration"] # <<>> THEN "business_duration"
  ELSE IF answers["working_capital"] # <<>> THEN "capital"
  ELSE IF answers["financial_operations"] # <<>> THEN "financial_operations"
  ELSE IF answers["active_customers"] # <<>> THEN "active_customers"
  ELSE IF client.meta.password # <<>> THEN "password"
  ELSE IF d.ver[e].emailVerified THEN "email_verification"
  ELSE IF d.ver[e].phoneVerified THEN "phone_verification"
  ELSE IF client.phone # "" THEN "phone"
  ELSE IF client.name # "" THEN "name"
  ELSE IF client.document # <<>> THEN "document"
  ELSE "email"

(***************************************************************************)
(* C9: the step a successful save returns is the first satisfied condition *)
(* of the priority list over the identity's state after the save, whatever *)
(* fields the submission itself carried.                                   *)
(***************************************************************************)
C9_SaveStepProjectsState ==
  [][(SaveServed /\ procs'[1].pc = "done")
     => procs'[1].step = PriorityStep(db', procs'[1].dto.email)]_vars

(***************************************************************************)
(* C10: resolve of an email that matches an identity returns the step the  *)
(* priority list of save yields for that identity's state, the steps       *)
(* password, phone_verification, phone, name and document included, and an *)
(* answer of 0 counts as present.                                          *)
(***************************************************************************)
C10_ResolveAgreesWithSave ==
  [][(nops' = nops + 1 /\ procs'[1].op = "resolve"
        /\ db.clients[procs'[1].dto.email].exists)
     => procs'[1].step = PriorityStep(db, procs'[1].dto.email)]_vars

(***************************************************************************)
(* The two calls of the controller, served to their end one at a time      *)
(***************************************************************************)
SaveCall(dto) ==
  /\ MayCall
  /\ Serve(NewProc("save", dto, "none"))
  /\ nops' = nops + 1

SubmitCall(dto) ==
  /\ MayCall
  /\ Serve(NewProc("submit", dto, "none"))
  /\ nops' = nops + 1

(***************************************************************************)
(* SpecMono: saves that carry growing sets of fields, and submits          *)
(***************************************************************************)
\* the body that carries the email and the fields of fs
MonoDto(e, fs) ==
  [EmptyDto EXCEPT !.email = e,
                   !.name = IF "name" \in fs THEN "Ann" ELSE "",
                   !.password = IF "password" \in fs THEN PwStrong ELSE <<>>,
                   !.activeCustomers =
                      IF "activeCustomers" \in fs THEN <<5>> ELSE <<>>]

NextMono ==
  \/ \E dto \in
         UNION {{MonoDto(e, fs) : fs \in SUBSET {"name", "password", "activeCustomers"}}
         \cup {VerifyingSave(e), [VerifyingSave(e) EXCEPT !.address = "Main St 1"]}
         : e \in Emails} :
       SaveCall(dto)
  \/ \E dto \in
         {FullSubmit(e) : e \in Emails} :
       SubmitCall(dto)

SpecMono == Init /\ [][NextMono]_vars

\* the labels of step inference from the least to the most advanced
StepOrder ==
  <<"email", "document", "name", "phone", "phone_verification",
    "email_verification", "password", "active_customers",
    "financial_operations", "capital", "business_duration",
    "business_options", "address", "completed">>

StepRank(step) == CHOOSE i \in 1..Len(StepOrder) : StepOrder[i] = step

\* the optional fields a body carries
CarriedFields(dto) ==
  {f \in {"name", "document", "phone", "code", "emailCode", "password",
          "activeCustomers", "financialOperations", "workingCapital",
          "businessDuration", "businessOptions", "address"} :
     \/ f = "name" /\ dto.name # ""
     \/ f = "document" /\ dto.document # <<>>
     \/ f = "phone" /\ dto.phone # ""
     \/ f = "code" /\ dto.code # ""
     \/ f = "emailCode" /\ dto.emailCode # ""
     \/ f = "password" /\ dto.password # <<>>
     \/ f = "activeCustomers" /\ dto.activeCustomers # <<>>
     \/ f = "financialOperations" /\ dto.financialOperations # <<>>
     \/ f = "workingCapital" /\ dto.workingCapital # <<>>
     \/ f = "businessDuration" /\ dto.businessDuration # <<>>
     \/ f = "businessOptions" /\ dto.businessOptions # <<>>
     \/ f = "address" /\ dto.address # ""}

\* a save B has been served right after a save A of the same email, both
\* have succeeded and B carries every field A carried
SupersetSaveServed ==
  /\ SaveServed /\ procs'[1].pc = "done"
  /\ procs[1].op = "save" /\ procs[1].pc = "done"
  /\ procs'[1].dto.email = procs[1].dto.email
  /\ CarriedFields(procs[1].dto) \subseteq CarriedFields(procs'[1].dto)

RequiredFields ==
  {"email", "password", "name", "businessOptions", "termsAccepted",
   "privacyAccepted"}

\* the full submission of e with the fields of fs left out
SubmitWithout(e, fs) ==
  [FullSubmit(e) EXCEPT
     !.email = IF "email" \in fs THEN "" ELSE @,
     !.password = IF "password" \in fs THEN <<>> ELSE @,
     !.name = IF "name" \in fs THEN "" ELSE @,
     !.businessOptions = IF "businessOptions" \in fs THEN <<>> ELSE @,
     !.termsAccepted = IF "termsAccepted" \in fs THEN FALSE ELSE @,
     !.privacyAccepted = IF "privacyAccepted" \in fs THEN FALSE ELSE @]

NextFields ==
  \/ \E dto \in
         {VerifyingSave(e) : e \in Emails} :
       SaveCall(dto)
  \/ \E dto \in
         {SubmitWithout("a@x.com", fs) : fs \in SUBSET RequiredFields}
         \cup {FullSubmit("b@x.com")} :
       SubmitCall(dto)

SpecFields == Init /\ [][NextFields]_vars

\* the required fields a submission lacks, as the specification lists them
AbsentRequired(dto) ==
  {f \in RequiredFields :
     \/ f = "email" /\ dto.email = ""
     \/ f = "password" /\ dto.password = <<>>
     \/ f = "name" /\ dto.name = ""
     \/ f = "businessOptions" /\ dto.businessOptions = <<>>
     \/ f = "termsAccepted" /\ ~dto.termsAccepted
     \/ f = "privacyAccepted" /\ ~dto.privacyAccepted}

(***************************************************************************)
(* C12: a submit that lacks any of email, password, name, a business       *)
(* option, terms acceptance or privacy acceptance ends with                *)
(* MissingRequiredFields, and the fields the error names are exactly the   *)
(* absent ones.                                                            *)
(***************************************************************************)
C12_MissingRequiredFields ==
  [][(SubmitServed /\ AbsentRequired(procs'[1].dto) # {})
     => /\ procs'[1].err = "MissingRequiredFields"
        /\ MissingFields(procs'[1].dto) = AbsentRequired(procs'[1].dto)]_vars

(***************************************************************************)
(* SpecPassword: submits whose passwords vary in length, in the classes of *)
(* characters they hold and in their first character                       *)
(***************************************************************************)
\* "#" is a character outside [A-Za-z\d@$!%*?&]
Passwords ==
  {h \o t : h \in {<<>>, <<"a">>, <<"A">>, <<"1">>, <<"!">>, <<"#">>},
           t \in
         { <<"A", "a", "1", "!">>,
         <<"A", "a", "1", "!", "a", "a", "a">>,
         <<"A", "a", "1", "a", "a", "a", "a">>,
         <<"a", "a", "1", "!", "a", "a", "a">>,
         <<"A", "A", "1", "!", "A", "A", "A">>,
         <<"A", "a", "a", "!", "a", "a", "a">> }}

NextPassword ==
  \/ \E dto \in
         {VerifyingSave(e) : e \in Emails} :
       SaveCall(dto)
  \/ \E dto \in
         {[FullSubmit(e) EXCEPT !.password = pw] : e \in Emails, pw \in Passwords} :
       SubmitCall(dto)

SpecPassword == Init /\ [][NextPassword]_vars

(***************************************************************************)
(* C13: with all required fields present, a submit ends with WeakPassword  *)
(* exactly when its password has fewer than 8 characters or lacks a        *)
(* lowercase letter, an uppercase letter, a digit or a symbol of the       *)
(* punctuation set, whatever the first character of the password is.       *)
(***************************************************************************)
C13_WeakPasswordExactly ==
  [][(SubmitServed /\ AbsentRequired(procs'[1].dto) = {})
     => (procs'[1].err = "WeakPassword"
           <=> ~PasswordIsStrong(procs'[1].dto.password))]_vars

(***************************************************************************)
(* SpecFrozen: identities are finalized and saves go on arriving for them  *)
(***************************************************************************)
NextFrozen ==
  \/ \E dto \in
         UNION {{ VerifyingSave(e),
         [JustEmail(e) EXCEPT !.name = "Bob"],
         [JustEmail(e) EXCEPT !.phone = "+5522"],
         [JustEmail(e) EXCEPT !.password = PwStrong],
         [JustEmail(e) EXCEPT !.address = "Main St 1"],
         [JustEmail(e) EXCEPT !.activeCustomers = <<5>>],
         WithDocument(JustEmail(e), CpfValid, "cpf", "BR") } : e \in Emails} :
       SaveCall(dto)
  \/ \E dto \in
         {FullSubmit(e) : e \in Emails} :
       SubmitCall(dto)

SpecFrozen == Init /\ [][NextFrozen]_vars

\* name, document triple, phone, postal address and pending password of a row
IdentityFields(row) ==
  [name |-> row.name, document |-> row.document,
   documentType |-> row.documentType,
   documentCountryCode |-> row.documentCountryCode,
   phone |-> row.phone, address |-> row.address,
   password |-> row.meta.password]

(***************************************************************************)
(* C14: once an identity's linkedAccountId is set, a save leaves its name, *)
(* document triple, phone, postal address and pending password unchanged.  *)
(***************************************************************************)
C14_FinalizedIdentityFrozen ==
  [][(SaveServed /\ db.clients[procs'[1].dto.email].accountId # 0)
     => IdentityFields(db'.clients[procs'[1].dto.email])
          = IdentityFields(db.clients[procs'[1].dto.email])]_vars

(***************************************************************************)
(* SpecCommute: saves that carry one optional field each                   *)
(***************************************************************************)
CommuteSaveDtos ==
  UNION {{ [JustEmail(e) EXCEPT !.name = "Ann"],
           [JustEmail(e) EXCEPT !.phone = "+5511"],
           [JustEmail(e) EXCEPT !.password = PwStrong],
           [JustEmail(e) EXCEPT !.address = "Main St 1"],
           [JustEmail(e) EXCEPT !.activeCustomers = <<5>>],
           WithDocument(JustEmail(e), CpfValid, "cpf", "BR") } : e \in Emails}

NextCommute == \E dto \in CommuteSaveDtos : SaveCall(dto)

SpecCommute == Init /\ [][NextCommute]_vars

\* the store after a save served alone from the store d
SaveResult(d, dto) == Run(d, NewProc("save", dto, "none")).db

\* all that is stored of the identity of e
IdentityState(d, e) ==
  [row |-> d.clients[e], answers |-> d.quals[e], flags |-> d.ver[e]]

\* two bodies of the same email with no optional field in common
Disjoint(dto1, dto2) ==
  /\ dto1.email = dto2.email
  /\ CarriedFields(dto1) \cap CarriedFields(dto2) = {}

(***************************************************************************)
(* C15: save is commutative across non-overlapping field subsets.  When a  *)
(* save S1 has been served, then for every S2 of the same email that       *)
(* shares no optional field with it, S2 after S1 leaves the same identity  *)
(* (row, pending password and phone metadata included) as S1 after S2.     *)
(***************************************************************************)
C15_SaveCommutes ==
  [][SaveServed
     => \A dto2 \in CommuteSaveDtos :
          Disjoint(procs'[1].dto, dto2)
          => IdentityState(SaveResult(db', dto2), dto2.email)
               = IdentityState(SaveResult(SaveResult(db, dto2), procs'[1].dto),
                               dto2.email)]_vars

(***************************************************************************)
(* SpecVerify: saves that carry fields together with verification codes    *)
(* the gateway rejects                                                     *)
(***************************************************************************)
NextVerify == \E dto \in
         UNION {{ VerifyingSave(e),
         [JustEmail(e) EXCEPT !.name = "Ann", !.code = "bad"],
         [JustEmail(e) EXCEPT !.phone = "+5511", !.code = "bad"],
         [JustEmail(e) EXCEPT !.password = PwStrong, !.code = "bad"],
         [JustEmail(e) EXCEPT !.password = PwStrong, !.code = "good",
         !.emailCode = "bad"],
         [JustEmail(e) EXCEPT !.address = "Main St 1", !.emailCode = "bad"],
         [JustEmail(e) EXCEPT !.activeCustomers = <<5>>, !.code = "bad"],
         [WithDocument(JustEmail(e), CpfValid, "cpf", "BR")
         EXCEPT !.emailCode = "bad"] } : e \in Emails} :
       SaveCall(dto)

SpecVerify == Init /\ [][NextVerify]_vars

\* the body carries a code the gateway rejects
HasRejectedCode(dto) ==
  \/ dto.code # "" /\ ~CodeAccepted(dto.code)
  \/ dto.emailCode # "" /\ ~CodeAccepted(dto.emailCode)

\* the same body with the rejected codes left out
WithoutRejectedCodes(dto) ==
  [dto EXCEPT !.code = IF CodeAccepted(@) THEN @ ELSE "",
              !.emailCode = IF CodeAccepted(@) THEN @ ELSE ""]

\* the save of the body served alone from the store d succeeds
SaveSucceeds(d, dto) == Run(d, NewProc("save", dto, "none")).l.pc = "done"

(***************************************************************************)
(* C16: a save that carries a verification code the gateway rejects ends   *)
(* with VerificationFailed, and the identity is stored as the same         *)
(* submission without the rejected code would have left it: name,          *)
(* document, phone, password, address and answers are persisted.           *)
(***************************************************************************)
C16_RejectedCodeKeepsWrites ==
  [][(/\ SaveServed
      /\ HasRejectedCode(procs'[1].dto)
      /\ SaveSucceeds(db, WithoutRejectedCodes(procs'[1].dto)))
     => /\ procs'[1].err = "Error:VerificationFailed"
        /\ IdentityState(db', procs'[1].dto.email)
             = IdentityState(SaveResult(db, WithoutRejectedCodes(procs'[1].dto)),
                             procs'[1].dto.email)]_vars

(***************************************************************************)
(* SpecAnswers: saves that record answers, then submits                    *)
(***************************************************************************)
NextAnswers ==
  \/ \E dto \in
         UNION {{ VerifyingSave(e),
         [VerifyingSave(e) EXCEPT !.activeCustomers = <<5>>],
         [JustEmail(e) EXCEPT !.workingCapital = <<10>>],
         [JustEmail(e) EXCEPT !.businessOptions = <<"rentRooms">>] }
         : e \in Emails} :
       SaveCall(dto)
  \/ \E dto \in
         UNION {{ FullSubmit(e),
         [FullSubmit(e) EXCEPT !.activeCustomers = <<7>>] } : e \in Emails} :
       SubmitCall(dto)

SpecAnswers == Init /\ [][NextAnswers]_vars

(***************************************************************************)
(* C17: after a successful submit every answer recorded for the identity,  *)
(* the answers of questions the submit did not carry included, is owned by *)
(* the new account.                                                        *)
(***************************************************************************)
C17_AnswersReowned ==
  [][(SubmitServed /\ procs'[1].pc = "done")
     => LET e == procs'[1].dto.email IN
        \A k \in QKeys :
          db'.quals[e][k] # <<>>
          => db'.qowner[e][k] = db'.clients[e].accountId]_vars

(***************************************************************************)
(* SpecSecret: saves that leave a pending password, submits and resolves   *)
(***************************************************************************)
NextSecret ==
  \/ \E dto \in
         UNION {{ VerifyingSave(e),
         [VerifyingSave(e) EXCEPT !.password = PwStrong],
         [JustEmail(e) EXCEPT !.password = PwNoSymbol],
         [JustEmail(e) EXCEPT !.name = "Ann"] } : e \in Emails} :
       SaveCall(dto)
  \/ \E dto \in
         UNION {{ FullSubmit(e),
         [FullSubmit(e) EXCEPT !.address = "Main St 1"] } : e \in Emails} :
       SubmitCall(dto)
  \/ \E e \in Emails : Resolve(e)

SpecSecret == Init /\ [][NextSecret]_vars

(***************************************************************************)
(* C18: the pending password of an identity is cleared once finalization   *)
(* has consumed it: after a successful submit the identity holds no        *)
(* pending password.                                                       *)
(***************************************************************************)
C18_PendingPasswordCleared ==
  [][(SubmitServed /\ procs'[1].pc = "done")
     => db'.clients[procs'[1].dto.email].meta.password = <<>>]_vars

(***************************************************************************)
(* SpecAccount: identities with stored phone and document, submissions     *)
(* with and without explicit account values                                *)
(***************************************************************************)
NextAccount ==
  \/ \E dto \in
         UNION {{ VerifyingSave(e),
         WithDocument(VerifyingSave(e), CpfValid, "cpf", "BR") } : e \in Emails} :
       SaveCall(dto)
  \/ \E dto \in
         UNION {{ FullSubmit(e),
         [FullSubmit(e) EXCEPT !.planId = 1],
         [FullSubmit(e) EXCEPT !.accountName = "Shop",
         !.accountEmail = "shop@x.com"],
         [FullSubmit(e) EXCEPT !.phone = "+5522"],
         WithDocument(FullSubmit(e), CpfFormatted, "cpf", "BR") } : e \in Emails} :
       SubmitCall(dto)

SpecAccount == Init /\ [][NextAccount]_vars

\* the account the claim describes: the explicit value of the submission
\* when present, otherwise the value stored on the identity
ExplicitOrStored(dto, row) ==
  [name |-> IF dto.accountName # "" THEN dto.accountName
            ELSE IF dto.name # "" THEN dto.name ELSE row.name,
   email |-> IF dto.accountEmail # "" THEN dto.accountEmail
             ELSE IF dto.email # "" THEN dto.email ELSE row.email,
   phone |-> IF dto.phone # "" THEN dto.phone ELSE row.phone,
   document |-> IF dto.document # <<>> THEN normalizeDocument(dto.document)
                ELSE row.document,
   planId |-> dto.planId]

(***************************************************************************)
(* C19: the account created by a successful submit takes name, email,      *)
(* phone and document from the submission when it carries them and         *)
(* otherwise from the identity's stored values (a submission without a     *)
(* document gives the account the identity's stored document), and the     *)
(* planId is passed through unchanged.                                     *)
(***************************************************************************)
C19_AccountFromExplicitOrStored ==
  [][(SubmitServed /\ procs'[1].pc = "done")
     => LET dto == procs'[1].dto
            row == db.clients[dto.email]
            acc == db'.accounts[procs'[1].accountId]
            exp == ExplicitOrStored(dto, row)
        IN /\ acc.name = exp.name
           /\ acc.email = exp.email
           /\ acc.phone = exp.phone
           /\ acc.document = exp.document
           /\ acc.planId = exp.planId]_vars

(***************************************************************************)
(* SpecChecksum: submits of one verified identity that carry Brazilian     *)
(* documents: valid numbers, every change of one of their last two digits, *)
(* repeated digits, wrong lengths, letters and formatted numbers           *)
(***************************************************************************)
\* valid numbers: check digits that come from remainders 0 and 1 (digit 0)
\* and from larger remainders
ChecksumCpfs ==
  {CpfValid,
   <<"1", "2", "3", "4", "5", "6", "7", "8", "9", "0", "9">>,
   <<"9", "3", "5", "4", "1", "1", "3", "4", "7", "8", "0">>}

ChecksumCnpjs ==
  {<<"1", "1", "2", "2", "2", "3", "3", "3", "0", "0", "0", "1", "8", "1">>,
   <<"1", "1", "2", "2", "2", "1", "6", "0", "0", "0", "0", "1", "0", "0">>}

\* the document with one of its last two characters replaced by a digit (the
\* document itself included)
LastTwoChanges(doc) ==
  {[doc EXCEPT ![i] = c] : i \in {Len(doc) - 1, Len(doc)}, c \in Digits}

\* with them: the formatted number, one digit repeated, a letter in the last
\* and in the first position, a short number, numbers of the other type
CpfDocuments ==
  UNION {LastTwoChanges(doc) : doc \in ChecksumCpfs}
    \cup {CpfFormatted, DocShort,
          <<"1", "1", "1", "1", "1", "1", "1", "1", "1", "1", "1">>,
          <<"5", "2", "9", "9", "8", "2", "2", "4", "7", "2", "a">>,
          <<"A", "2", "9", "9", "8", "2", "2", "4", "7", "2", "5">>}
    \cup ChecksumCnpjs

CnpjDocuments ==
  UNION {LastTwoChanges(doc) : doc \in ChecksumCnpjs}
    \cup {DocShort, CpfValid,
          <<"1", "1", ".", "2", "2", "2", ".", "3", "3", "3", "/", "0", "0", "0", "1", "-", "8", "1">>,
          <<"0", "0", "0", "0", "0", "0", "0", "0", "0", "0", "0", "0", "0", "0">>,
          <<"1", "1", "2", "2", "2", "3", "3", "3", "0", "0", "0", "1", "8", "b">>}

NextChecksum ==
  \/ \E dto \in
         {VerifyingSave("a@x.com")} :
       SaveCall(dto)
  \/ \E dto \in
         {WithDocument(FullSubmit("a@x.com"), doc, "cpf", "BR") : doc \in CpfDocuments}
         \cup {WithDocument(FullSubmit("a@x.com"), doc, "cnpj", "BR") :
         doc \in CnpjDocuments} :
       SubmitCall(dto)

SpecChecksum == Init /\ [][NextChecksum]_vars

\* the rule as the claim words it: the weights run 2, 3, ... from the right
\* (up to 9 and round again for a cnpj), the check digit is 0 when the sum
\* leaves less than 2 modulo 11 and 11 minus the remainder otherwise
RuleLen(type) == IF type = "cpf" THEN 11 ELSE 14

RuleWeight(type, k, i) ==
  IF type = "cpf" THEN k + 2 - i ELSE ((k - i) % 8) + 2

RECURSIVE RuleSum(_, _, _, _)
RuleSum(s, type, k, i) ==
  IF i > k THEN 0
  ELSE DigitVal(s[i]) * RuleWeight(type, k, i) + RuleSum(s, type, k, i + 1)

RuleCheckDigit(s, type, k) ==
  LET r == RuleSum(s, type, k, 1) % 11 IN IF r < 2 THEN 0 ELSE 11 - r

BrRule(document, type) ==
  LET n == normalizeDocument(document)
      len == RuleLen(type)
  IN /\ Len(n) = len
     /\ \A i \in 1..len : n[i] \in Digits
     /\ \E i \in 1..len : n[i] # n[1]
     /\ DigitVal(n[len - 1]) = RuleCheckDigit(n, type, len - 2)
     /\ DigitVal(n[len]) = RuleCheckDigit(n, type, len - 1)

\* d differs from v in exactly one of its last two positions, by a digit
ChangedInLastTwo(d, v) ==
  /\ Len(d) = Len(v)
  /\ Len(d) >= 2
  /\ \E i \in {Len(d) - 1, Len(d)} :
       /\ d[i] # v[i]
       /\ d[i] \in Digits
       /\ \A j \in 1..Len(d) : j # i => d[j] = v[j]

\* a submit that gets as far as the check of its document
ReachesDocumentCheck ==
  /\ SubmitServed
  /\ procs'[1].dto.document # <<>>
  /\ procs'[1].dto.documentCountryCode = "BR"
  /\ procs'[1].dto.documentType \in {"cpf", "cnpj"}
  /\ db.clients[procs'[1].dto.email].exists
  /\ VerificationError(getVerificationStatus(db, procs'[1].dto.email)) = ""

(***************************************************************************)
(* C20: a Brazilian cpf or cnpj is accepted exactly when its normalized    *)
(* form has 11 (cpf) or 14 (cnpj) digits, is not one digit repeated, and   *)
(* its last two digits are the two check digits of the weighted mod-11     *)
(* rule of its type; so a valid number with one of its last two digits     *)
(* changed is rejected.                                                    *)
(***************************************************************************)
C20_Step ==
  ReachesDocumentCheck
  => LET dto == procs'[1].dto
         type == dto.documentType
     IN /\ validateDocument(dto.document, type, "BR") <=> BrRule(dto.document, type)
        /\ procs'[1].err = "InvalidDocument" <=> ~BrRule(dto.document, type)
        /\ \A v \in ChecksumCpfs \cup ChecksumCnpjs :
             (validateDocument(v, type, "BR") /\ ChangedInLastTwo(dto.document, v))
             => procs'[1].err = "InvalidDocument"

C20_BrChecksum == [][C20_Step]_vars

\* a verified identity has submitted a valid cpf with its last digit changed
\* and was refused for the document
C20_Witness ==
  /\ procs[1].op = "submit"
  /\ procs[1].dto.document = CpfBadCheck
  /\ ChangedInLastTwo(procs[1].dto.document, CpfValid)
  /\ validateDocument(CpfValid, "cpf", "BR")
  /\ procs[1].err = "InvalidDocument"
  /\ db.ver["a@x.com"].emailVerified
  /\ db.ver["a@x.com"].phoneVerified

(***************************************************************************)
(* SpecSsn: submits of verified identities that carry US social security   *)
(* numbers: digits, formatted digits, the refused patterns, wrong lengths  *)
(* and strings with letters                                                *)
(***************************************************************************)
NextSsn ==
  \/ \E dto \in {VerifyingSave(e) : e \in Emails} : SaveCall(dto)
  \/ \E e \in Emails :
       \E doc \in
           {<<"1", "2", "3", "4", "5", "6", "7", "8", "9">>,
            <<"1", "2", "3", "-", "4", "5", "-", "6", "7", "8", "9">>,
            <<"1", "1", "1", "1", "1", "1", "1", "1", "1">>,
            <<"0", "0", "0", "1", "2", "3", "4", "5", "6">>,
            <<"1", "2", "3", "0", "0", "6", "7", "8", "9">>,
            <<"1", "2", "3", "4", "5", "0", "0", "0", "0">>,
            <<"1", "0", "0", "2", "0", "0", "3", "0", "0">>,
            <<"1", "2", "3", "4", "5", "6", "7", "8">>,
            <<"1", "2", "3", "4", "5", "6", "7", "8", "9", "0">>,
            <<"A", "2", "3", "4", "5", "6", "7", "8", "9">>,
            <<"1", "2", "3", "4", "5", "6", "7", "8", "a">>,
            <<"A", "B", "A", "B", "A", "B", "A", "B", "A">>,
            <<"A", "A", "A", "A", "A", "A", "A", "A", "A">>,
            <<"0", "0", "0", "1", "2", "0", "0", "0", "a">>} :
         SubmitCall(WithDocument(FullSubmit(e), doc, "ssn", "US"))

SpecSsn == Init /\ [][NextSsn]_vars

\* a submit of the given type and country that gets as far as the check of
\* its document
SubmitsDocumentOf(type, country) ==
  /\ SubmitServed
  /\ procs'[1].dto.document # <<>>
  /\ procs'[1].dto.documentType = type
  /\ procs'[1].dto.documentCountryCode = country
  /\ db.clients[procs'[1].dto.email].exists
  /\ VerificationError(getVerificationStatus(db, procs'[1].dto.email)) = ""

\* the rule as the claim words it (positions counted from 0)
SsnRule(document) ==
  LET n == normalizeDocument(document) IN
  /\ Len(n) = 9
  /\ \A i \in 1..9 : n[i] \in Digits
  /\ \E i \in 1..9 : n[i] # n[1]
  /\ SubSeq(n, 1, 3) # <<"0", "0", "0">>
  /\ SubSeq(n, 4, 5) # <<"0", "0">>
  /\ SubSeq(n, 6, 9) # <<"0", "0", "0", "0">>

(***************************************************************************)
(* C21: a US ssn is accepted if and only if its normalized form consists   *)
(* of exactly 9 digits and no letters, is not one digit repeated, does not *)
(* start with 000, has no 00 at positions 3-4 and does not end in 0000.    *)
(***************************************************************************)
C21_SsnRule ==
  [][SubmitsDocumentOf("ssn", "US")
     => /\ validateDocument(procs'[1].dto.document, "ssn", "US")
             <=> SsnRule(procs'[1].dto.document)
        /\ procs'[1].err = "InvalidDocument"
             <=> ~SsnRule(procs'[1].dto.document)]_vars

(***************************************************************************)
(* SpecOther: submits of verified identities over the combinations of      *)
(* country and type, with a document that normalizes to the empty string   *)
(***************************************************************************)
NextOther ==
  \/ \E dto \in {VerifyingSave(e) : e \in Emails} : SaveCall(dto)
  \/ \E e \in Emails, doc \in {DocShort, CpfValid, <<"-", ".">>},
        type \in {"other", "cpf", "ssn", "crn"},
        country \in {"BR", "US", "UK", "AR", "br"} :
       SubmitCall(WithDocument(FullSubmit(e), doc, type, country))

SpecOther == Init /\ [][NextOther]_vars

\* the six combinations that have a validator of their own
ListedCombinations ==
  {<<"BR", "cpf">>, <<"BR", "cnpj">>, <<"US", "ssn">>, <<"US", "ein">>,
   <<"UK", "ni">>, <<"UK", "crn">>}

\* the rule as the claim words it, for the combinations outside the six
FreeTextRule(document, type, country) ==
  IF type = "other" \/ CountryUpper(country) \notin {"BR", "US", "UK"}
  THEN Len(normalizeDocument(document)) > 0
  ELSE FALSE

(***************************************************************************)
(* C22: for the type "other" under any country code (BR, US and UK         *)
(* included) and for any country outside BR, US and UK, a document is      *)
(* valid if and only if its normalized form is non-empty; every other      *)
(* combination of country and type outside the six listed ones is invalid. *)
(***************************************************************************)
C22_FreeTextDocuments ==
  [][\A type \in {"other", "cpf", "ssn", "crn"},
        country \in {"BR", "US", "UK", "AR", "br"} :
       (/\ SubmitsDocumentOf(type, country)
        /\ <<CountryUpper(country), type>> \notin ListedCombinations)
       => LET document == procs'[1].dto.document IN
          /\ validateDocument(document, type, country)
               <=> FreeTextRule(document, type, country)
          /\ procs'[1].err = "InvalidDocument"
               <=> ~FreeTextRule(document, type, country)]_vars

(***************************************************************************)
(* ClientsController.consultDocument over ClientsService.findByDocument    *)
(***************************************************************************)
\* the lookup with the documents compared in normalized form
findByDocumentNormalized(d, document) ==
  {e \in Emails : /\ d.clients[e].exists
                  /\ normalizeDocument(d.clients[e].document)
                       = normalizeDocument(document)}

\* prisma.client.findFirst({ where: { document, deletedAt: null } }) : the
\* rows findFirst may return, none when the set is empty
findByDocument(d, document) ==
  {e \in Emails : d.clients[e].exists /\ d.clients[e].document = document}

\* controller.consultDocument(req, res) with req.params.document: OK with the
\* row the service returns, NOT_FOUND 'Client not found' when it returns null
consultDocument(document) ==
  /\ MayCall
  /\ \/ /\ findByDocument(db, document) = {}
        /\ procs' = [procs EXCEPT ![1] =
             [IdleProc EXCEPT !.op = "consult", !.dto.document = document,
                              !.pc = "failed", !.err = "Client not found"]]
     \/ \E e \in findByDocument(db, document) :
          procs' = [procs EXCEPT ![1] =
             [IdleProc EXCEPT !.op = "consult", !.dto.document = document,
                              !.pc = "done", !.client = db.clients[e]]]
  /\ nops' = nops + 1
  /\ UNCHANGED db

(***************************************************************************)
(* SpecConsult: saves that store documents as they were typed, and         *)
(* consultations by document                                               *)
(***************************************************************************)
NextConsult ==
  \/ \E e \in Emails, doc \in {CpfValid, CpfFormatted, DocShort} :
       SaveCall(WithDocument(JustEmail(e), doc, "cpf", "BR"))
  \/ \E doc \in {CpfValid, CpfFormatted, DocShort, CpfBadCheck} :
       consultDocument(doc)

SpecConsult == Init /\ [][NextConsult]_vars

ConsultServed == nops' = nops + 1 /\ procs'[1].op = "consult"

\* the identities that hold exactly this string as their document
HoldersOfExactly(document) ==
  {e \in Emails : db.clients[e].exists /\ db.clients[e].document = document}

NextRace ==
  \/ /\ procs[2].pc = "idle"
     /\ SaveCall([JustEmail("a@x.com") EXCEPT !.name = "Ann"])
  \/ \E p \in Procs,
        dto \in {[JustEmail("a@x.com") EXCEPT !.name = "Bob"],
                 [JustEmail("a@x.com") EXCEPT !.phone = "+5511"],
                 [JustEmail("a@x.com") EXCEPT !.password = PwStrong],
                 [JustEmail("a@x.com") EXCEPT !.address = "Main St 1"]} :
       /\ db.clients[dto.email].exists
       /\ IF p = 1 THEN procs[2].pc = "idle"
          ELSE ~Ended(procs[1]) /\ procs[1].op = "save"
       /\ StartSave(p, dto)
  \/ \E p \in Procs : Step(p)

SpecRace == Init /\ [][NextRace]_vars

\* the identity holds the value of every optional field the body carries
HoldsFieldsOf(d, dto) ==
  LET row == d.clients[dto.email] IN
  /\ dto.name # "" => row.name = dto.name
  /\ dto.phone # "" => row.phone = dto.phone
  /\ dto.password # <<>> => row.meta.password = dto.password
  /\ dto.address # "" => row.address = dto.address

(***************************************************************************)
(* C24: two concurrent saves for the same existing identity that carry     *)
(* disjoint optional fields both take effect: once both have completed,    *)
(* whatever the interleaving of their reads and writes, the identity holds *)
(* the values of both.                                                     *)
(***************************************************************************)
C24_ConcurrentSavesBothKept ==
  (/\ procs[1].op = "save" /\ procs[1].pc = "done"
   /\ procs[2].op = "save" /\ procs[2].pc = "done"
   /\ Disjoint(procs[1].dto, procs[2].dto))
  => HoldsFieldsOf(db, procs[1].dto) /\ HoldsFieldsOf(db, procs[2].dto)

(***************************************************************************)
(* C25: identity emails are unique under any interleaving, and a save that *)
(* creates an identity for an email that is already held fails with        *)
(* EmailAlreadyExists, also when the collision comes from a concurrent     *)
(* first save of the same email.  Under SpecConc the saves carry accepted  *)
(* codes and no document, so a save can fail only while it creates.        *)
(***************************************************************************)
C25_CreateCollisionIsEmailAlreadyExists ==
  \A p \in Procs :
    (procs[p].op = "save" /\ procs[p].pc = "failed")
    => procs[p].err = "EmailAlreadyExists"

(***************************************************************************)
(* SpecTriple: saves and submits that carry the whole document triple or   *)
(* a part of it                                                            *)
(***************************************************************************)
NextTriple ==
  \/ \E e \in Emails :
       \E dto \in {VerifyingSave(e),
                   WithDocument(JustEmail(e), CpfValid, "cpf", "BR"),
                   WithDocument(JustEmail(e), CpfValid, "", ""),
                   WithDocument(JustEmail(e), CpfValid, "cpf", ""),
                   WithDocument(JustEmail(e), <<>>, "cpf", "BR")} :
         SaveCall(dto)
  \/ \E e \in Emails :
       \E dto \in {WithDocument(FullSubmit(e), CpfValid, "cpf", "BR"),
                   WithDocument(FullSubmit(e), CpfValid, "", ""),
                   WithDocument(FullSubmit(e), CpfValid, "cpf", ""),
                   WithDocument(FullSubmit(e), CpfValid, "", "BR"),
                   WithDocument(FullSubmit(e), <<>>, "cpf", "BR"),
                   WithDocument(FullSubmit(e), <<>>, "", "BR")} :
         SubmitCall(dto)

SpecTriple == Init /\ [][NextTriple]_vars

\* document, type and country of a record: all three present or all absent
TripleWhole(r) ==
  \/ r.document # <<>> /\ r.documentType # "" /\ r.documentCountryCode # ""
  \/ r.document = <<>> /\ r.documentType = "" /\ r.documentCountryCode = ""

\* a submit with a part of the triple, of an identity that passes the checks
\* before the document
C26_PartialSubmit ==
  /\ SubmitServed
  /\ ~TripleWhole(procs'[1].dto)
  /\ db.clients[procs'[1].dto.email].exists
  /\ VerificationError(getVerificationStatus(db, procs'[1].dto.email)) = ""

(***************************************************************************)
(* C26: in every reachable state each identity has document, documentType  *)
(* and documentCountryCode all three present or all three absent; and a    *)
(* submit that carries only a part of the triple fails with                *)
(* InvalidDocument.                                                        *)
(***************************************************************************)
C26_TripleAllOrNone ==
  /\ [](\A e \in Emails : TripleWhole(db.clients[e]))
  /\ [][C26_PartialSubmit => procs'[1].err = "InvalidDocument"]_vars

(***************************************************************************)
(* SpecSend: saves that create an identity with or without a phone, set a  *)
(* phone, change it and repeat it; the sends to the gateway may fail       *)
(***************************************************************************)
NextSend ==
  \E e \in Emails :
    \E dto \in {[JustEmail(e) EXCEPT !.name = "Ann"],
                [JustEmail(e) EXCEPT !.phone = "+5511"],
                [JustEmail(e) EXCEPT !.phone = "+5522"],
                [JustEmail(e) EXCEPT !.phone = "+5522", !.password = PwStrong,
                                     !.activeCustomers = <<5>>,
                                     !.address = "Main St 1"]},
       fault \in {"none", "v_phone_send", "v_email_send"} :
      /\ MayCall
      /\ Serve(NewProc("save", dto, fault))
      /\ nops' = nops + 1

SpecSend == Init /\ [][NextSend]_vars

\* the save sets a phone for the first time or changes the stored one
PhoneSetOrChanged(d, dto) ==
  dto.phone # "" /\ dto.phone # d.clients[dto.email].phone

(***************************************************************************)
(* C27: every save that sets a phone number for the first time or changes  *)
(* it triggers exactly one phone verification send, the first save of an   *)
(* email that creates the identity together with its phone included; a     *)
(* save whose phone equals the stored phone triggers none.                 *)
(***************************************************************************)
C27_OneSendPerPhoneChange ==
  [][(SaveServed /\ procs'[1].faultAt = "none")
     => procs'[1].phoneSends
          = IF PhoneSetOrChanged(db, procs'[1].dto) THEN 1 ELSE 0]_vars

(***************************************************************************)
(* C28: a failure of a verification send (phone or email) during save does *)
(* not block the save: the call still returns the success shape and all    *)
(* fields of the submission, those processed after the send included, are  *)
(* persisted as they are when the send succeeds.                           *)
(***************************************************************************)
C28_SendFailureNotBlocking ==
  [][(/\ SaveServed
      /\ procs'[1].faultAt \in {"v_phone_send", "v_email_send"}
      /\ SaveSucceeds(db, procs'[1].dto))
     => /\ procs'[1].pc = "done"
        /\ IdentityState(db', procs'[1].dto.email)
             = IdentityState(SaveResult(db, procs'[1].dto),
                             procs'[1].dto.email)]_vars

(***************************************************************************)
(* SpecStored: saves that store documents unvalidated, submits with and    *)
(* without a document, and saves that go on after the submit               *)
(***************************************************************************)
NextStored ==
  \/ \E e \in Emails :
       \E dto \in {VerifyingSave(e),
                   WithDocument(VerifyingSave(e), CpfBadCheck, "cpf", "BR"),
                   WithDocument(JustEmail(e), CpfFormatted, "cpf", "BR"),
                   WithDocument(JustEmail(e), CpfValid, "cpf", "BR")} :
         SaveCall(dto)
  \/ \E e \in Emails :
       \E dto \in {FullSubmit(e),
                   WithDocument(FullSubmit(e), CpfFormatted, "cpf", "BR")} :
         SubmitCall(dto)

SpecStored == Init /\ [][NextStored]_vars

(***************************************************************************)
(* C29: every finalized identity that has a stored document holds it in    *)
(* normalized form, and the document is valid under the document validator *)
(* for the stored type and country, after any sequence of saves and        *)
(* submits.                                                                *)
(***************************************************************************)
C29_FinalizedDocumentValid ==
  \A e \in Emails :
    (db.clients[e].accountId # 0 /\ db.clients[e].document # <<>>)
    => /\ db.clients[e].document = normalizeDocument(db.clients[e].document)
       /\ validateDocument(db.clients[e].document, db.clients[e].documentType,
                           db.clients[e].documentCountryCode)

\* the credential a successful submit has created
CredentialOf(l, d) == d.users[l.userId]

(***************************************************************************)
(* C30: the phone recorded on the credential and on the account created by *)
(* submit is the phone whose verification the phone-verified check         *)
(* attests: the identity's stored, verified phone, never another number    *)
(* carried by the submission.                                              *)
(***************************************************************************)
C30_AccountPhoneIsVerifiedPhone ==
  [][(SubmitServed /\ procs'[1].pc = "done")
     => LET stored == db.clients[procs'[1].dto.email].phone IN
        /\ db'.accounts[procs'[1].accountId].phone = stored
        /\ CredentialOf(procs'[1], db').phone = stored]_vars

====
